---- MODULE Spec2Model ----
(***************************************************************************)
(* Order book of server.py: add_book (insertion and aging), clear_order    *)
(* (crossing resolver), clear_book (uncrossing loop) and the order_book    *)
(* generator that keeps one book per instrument and emits one snapshot     *)
(* (t, bids, asks) per loop iteration.                                     *)
(*                                                                         *)
(* A resting order is the tuple <<price, size, age>> of the source; a      *)
(* ledger is a sequence of them.  Prices are integers (the source rounds   *)
(* them to two decimals; a price here is that number in its smallest       *)
(* unit), sizes are non-negative integers.                                 *)
(***************************************************************************)
EXTENDS Integers, Sequences, FiniteSets

\* ------------------------------------------------------------------ bounds

\* Orders consumed by one run of the order_book generator under Spec.
MaxOrders == 4
\* Orders consumed by one run under SpecAging (long runs, narrow feed).
MaxAgingOrders == 13
\* Longest ledger handed to add_book and to clear_order under SpecFn.
MaxLen == 3
\* Longest bid ledger and longest ask ledger handed to clear_book.
MaxBids == 2
MaxAsks == 2

\* ------------------------------------------------------- program constants

\* add_book's default _age: the life a new resting order starts with.
_age == 10

\* The instrument whose book is modelled (App passes 'DOGE' and 'BTC').
stock_name == "DOGE"

\* Python's None, returned by clear_order when it falls off its end.
None == <<>>

\* The IndexError clear_order raises at book[0] on an empty book.
IndexError == <<"IndexError">>

\* operator.ge, clear_order's default op.
ge(a, b) == a >= b

min(a, b) == IF a < b THEN a ELSE b

\* ---------------------------------------------------------------- add_book

\* Mutant of age_rest: an entry of age 0 is kept for one more insertion.
RECURSIVE age_rest_late(_)
age_rest_late(book) ==
    IF book = <<>> THEN <<>>
    ELSE LET e == Head(book)
         IN  IF e[3] >= 0
             THEN <<<<e[1], e[2], e[3] - 1>>>> \o age_rest_late(Tail(book))
             ELSE age_rest_late(Tail(book))

\* Mutant of age_rest: every entry is made older, none is dropped.
age_rest_keeps_all(book) ==
    [i \in 1..Len(book) |-> <<book[i][1], book[i][2], book[i][3] - 1>>]

\* The loop of add_book: every entry whose age is > 0, one step older.
RECURSIVE age_rest(_)
age_rest(book) ==
    IF book = <<>> THEN <<>>
    ELSE LET e == Head(book)
         IN  IF e[3] > 0
             THEN <<<<e[1], e[2], e[3] - 1>>>> \o age_rest(Tail(book))
             ELSE age_rest(Tail(book))

\* Mutant of add_book: the new order is put in front of an unaged book.
add_book_unaged(book, order, size, age) ==
    <<<<order, size, age>>>> \o book

\* add_book(book, order, size, _age), as the list the generator yields.
add_book(book, order, size, age) ==
    <<<<order, size, age>>>> \o age_rest(book)

\* ------------------------------------------------------------- clear_order

\* Mutant of clear_order: the remainder is put back by add_book with its
\* default age, a new order's life.
RECURSIVE clear_order_resets(_, _, _, _)
clear_order_resets(order, size, book, notional) ==
    IF book = <<>> THEN IndexError
    ELSE LET sdiff == book[1][2] - size
             notional2 == notional + min(size, book[1][2]) * book[1][1]
         IN  IF ge(order, book[1][1])
             THEN IF sdiff > 0
                  THEN <<notional2, add_book(Tail(book), book[1][1], sdiff, _age)>>
                  ELSE IF Len(Tail(book)) > 0
                       THEN clear_order_resets(order, -sdiff, Tail(book), notional2)
                       ELSE None
             ELSE None

\* Mutant of clear_order: a resting order filled exactly (sdiff = 0) is
\* returned as a result, with size 0.
RECURSIVE clear_order_exact(_, _, _, _)
clear_order_exact(order, size, book, notional) ==
    IF book = <<>> THEN IndexError
    ELSE LET sdiff == book[1][2] - size
             notional2 == notional + min(size, book[1][2]) * book[1][1]
         IN  IF ge(order, book[1][1])
             THEN IF sdiff >= 0
                  THEN <<notional2, add_book(Tail(book), book[1][1], sdiff, book[1][3])>>
                  ELSE IF Len(Tail(book)) > 0
                       THEN clear_order_exact(order, -sdiff, Tail(book), notional2)
                       ELSE None
             ELSE None

\* clear_order(order, size, book, op=operator.ge, _notional): None, or
\* <<notional, new_book>>; IndexError on an empty book.
RECURSIVE clear_order(_, _, _, _)
clear_order(order, size, book, notional) ==
    IF book = <<>> THEN IndexError
    ELSE LET top_order == book[1][1]
             top_size  == book[1][2]
             age       == book[1][3]
             tail      == Tail(book)
             notional2 == notional + min(size, top_size) * top_order
             sdiff     == top_size - size
         IN  IF ge(order, top_order)
             THEN IF sdiff > 0
                  THEN <<notional2, add_book(tail, top_order, sdiff, age)>>
                  ELSE IF Len(tail) > 0
                       THEN clear_order(order, -sdiff, tail, notional2)
                       ELSE None
             ELSE None

\* -------------------------------------------------------------- clear_book

\* Mutant of clear_book: an if for the while, one iteration at most.
clear_book_once(buy, sell) ==
    IF buy # <<>> /\ sell # <<>>
    THEN LET new_book == clear_order(buy[1][1], buy[1][2], sell, 0)
         IN  IF new_book # None
             THEN <<Tail(buy), new_book[2]>>
             ELSE <<buy, sell>>
    ELSE <<buy, sell>>

\* Mutant of clear_book: the bids left are aged like the asks' tail.
RECURSIVE clear_book_ages_bids(_, _)
clear_book_ages_bids(buy, sell) ==
    IF buy # <<>> /\ sell # <<>>
    THEN LET new_book == clear_order(buy[1][1], buy[1][2], sell, 0)
         IN  IF new_book # None
             THEN clear_book_ages_bids(age_rest(Tail(buy)), new_book[2])
             ELSE <<buy, sell>>
    ELSE <<buy, sell>>

\* clear_book(buy, sell): the while loop, one iteration per unfolding.
RECURSIVE clear_book(_, _)
clear_book(buy, sell) ==
    IF buy # <<>> /\ sell # <<>>
    THEN LET new_book == clear_order(buy[1][1], buy[1][2], sell, 0)
         IN  IF new_book # None
             THEN clear_book(Tail(buy), new_book[2])
             ELSE <<buy, sell>>
    ELSE <<buy, sell>>

\* ------------------------------------------------------------------ sorted

\* One insertion of a stable sort by price: x, which followed every entry
\* of the sorted s in the input, goes behind the entries that do not sort
\* after it.
RECURSIVE sorted_insert(_, _, _)
sorted_insert(s, x, reverse) ==
    IF s = <<>> THEN <<x>>
    ELSE IF (IF reverse THEN Head(s)[1] >= x[1] ELSE Head(s)[1] <= x[1])
         THEN <<Head(s)>> \o sorted_insert(Tail(s), x, reverse)
         ELSE <<x>> \o s

\* Mutant of sorted: the ledger is left in insertion order.
unsorted(s, reverse) == s

\* sorted(new, reverse=..., key=lambda x: x[0]): Python's stable sort.
RECURSIVE sorted(_, _)
sorted(s, reverse) ==
    IF s = <<>> THEN <<>>
    ELSE sorted_insert(sorted(SubSeq(s, 1, Len(s) - 1), reverse),
                       s[Len(s)], reverse)

\* -------------------------------------------------------------- order_book

VARIABLES
    book,       \* the dict order_book keeps: book.buy and book.sell
    snapshot,   \* the last tuple yielded: <<t, bids, asks>>
    n,          \* orders consumed from the stream so far
    seen,       \* history: the orders consumed, in order
    call,       \* SpecFn: the function under call
    args,       \* SpecFn: its arguments
    ret,        \* SpecFn: what the calls made so far returned, in order
    frame,      \* SpecLoop: the locals of clear_book and clear_order, and
                \* the line the call stands at
    mem,        \* the list objects: those the book's sides are bound to
                \* and those every yielded tuple refers to
    app         \* SpecApp: the App's clock, its query and its response

vars == <<book, snapshot, n, seen, call, args, ret, frame, mem, app>>

Order(stock, side, order, size) ==
    [stock |-> stock, side |-> side, order |-> order, size |-> size]

\* The orders of Spec: both sides of the modelled instrument, and one order
\* of the other instrument.
Prices == {90, 100}
Sizes == {2, 3, 5}
Orders ==
    {Order(stock_name, sd, p, s) : sd \in {"buy", "sell"}, p \in Prices, s \in Sizes}
    \cup {Order("BTC", "buy", 100, 5)}

\* The objects of App.__init__'s {'buy': [], 'sell': []}: two lists, the
\* sides bound to them, and no tuple yielded.  heap[i] is the value of
\* list object i.
InitMem == [heap |-> <<<<>>, <<>>>>, buy |-> 1, sell |-> 2, emitted |-> <<>>]

\* App.__init__: an empty book per instrument; nothing yielded yet.
InitBook ==
    /\ book = [buy |-> <<>>, sell |-> <<>>]
    /\ snapshot = <<0, <<>>, <<>>>>
    /\ n = 0
    /\ seen = <<>>
    /\ mem = InitMem

Init ==
    /\ InitBook
    /\ call = "order_book"
    /\ args = <<>>
    /\ ret = <<>>
    /\ frame = <<>>
    /\ app = <<>>

\* Mutant of Inserted: the order is inserted whatever its instrument.
InsertedAnyStock(b, o) ==
    [b EXCEPT ![o.side] =
        sorted(add_book(b[o.side], o.order, o.size, _age), o.side = "buy")]

\* The book after lines 87-89 of order_book for order o.
Inserted(b, o) ==
    IF stock_name = o.stock
    THEN [b EXCEPT ![o.side] =
            sorted(add_book(b[o.side], o.order, o.size, _age), o.side = "buy")]
    ELSE b

\* Mutant of Rebind: the sorted ledger is written into the list the side
\* is bound to (book[side][:] = ..., or list.sort()).
StoreInPlace(m, side, value) ==
    [m EXCEPT !.heap[m[side]] = value]

\* Line 89, book[side] = sorted(...): sorted returns a new list and the
\* side is bound to it; the list it was bound to is left as it is.
Rebind(m, side, value) ==
    [m EXCEPT !.heap = Append(@, value), ![side] = Len(m.heap) + 1]

\* Lines 90-91: the tuple yielded refers to what clear_book returned: its
\* own arguments, the book's lists, when no iteration rebound them (the
\* bids are as many as given), and else the new lists buy[1:] and
\* new_book[1].
Emit(m, t, cleared) ==
    IF Len(cleared[1]) = Len(m.heap[m.buy])
    THEN [m EXCEPT !.emitted = Append(@, <<t, m.buy, m.sell>>)]
    ELSE LET h == m.heap \o <<cleared[1], cleared[2]>>
         IN  [m EXCEPT !.heap = h,
                       !.emitted = Append(@, <<t, Len(h) - 1, Len(h)>>)]

\* The objects after lines 87-89 of order_book for order o.
Rebound(m, b, o) ==
    IF stock_name = o.stock THEN Rebind(m, o.side, b[o.side]) ELSE m

\* Mutant of Advance: the yield is inside the if, so that an order of
\* another instrument yields nothing.
AdvanceYieldsOwn(o) ==
    /\ book' = Inserted(book, o)
    /\ LET cleared == clear_book(book'.buy, book'.sell)
       IN  IF stock_name = o.stock
           THEN /\ snapshot' = <<n + 1, cleared[1], cleared[2]>>
                /\ mem' = Emit(Rebound(mem, book', o), n + 1, cleared)
           ELSE UNCHANGED <<snapshot, mem>>
    /\ n' = n + 1
    /\ seen' = Append(seen, o)

\* One iteration of order_book's loop for a row unpacked into the timestamp
\* t and the order o: insert and sort when the order is for this book's
\* instrument, then clear_book(**book) and yield; the cleared ledgers go to
\* the snapshot alone.
AdvanceAt(t, o) ==
    /\ book' = Inserted(book, o)
    /\ LET cleared == clear_book(book'.buy, book'.sell)
       IN  /\ snapshot' = <<t, cleared[1], cleared[2]>>
           /\ mem' = Emit(Rebound(mem, book', o), t, cleared)
    /\ n' = n + 1
    /\ seen' = Append(seen, o)

\* The same for a stream of tuples, where the timestamp of the k-th is k.
Advance(o) ==
    AdvanceAt(n + 1, o)

\* order_book driven by itself: the next tuple is asked for.
Process(o) ==
    /\ Advance(o)
    /\ UNCHANGED <<call, args, ret, frame, app>>

Next == \E o \in Orders : n < MaxOrders /\ Process(o)

Spec == Init /\ [][Next]_vars

\* ---------------------------------------------------- claims on order_book

bids == snapshot[2]
asks == snapshot[3]

\* C1: every emitted snapshot whose bids and asks are both non-empty has its
\* best bid price strictly below its best ask price.
C1_NoCrossedSnapshot ==
    (n > 0 /\ bids # <<>> /\ asks # <<>>) => bids[1][1] < asks[1][1]

\* C2: from an empty book, bid (100, 5) gives bids = [(100,5,10)] and no
\* asks; then ask (90, 3) gives bids = [(100,2,9)] and no asks; then ask
\* (100, 2) gives no bids and no asks.
C2_Scenario ==
    LET o1 == Order(stock_name, "buy", 100, 5)
        o2 == Order(stock_name, "sell", 90, 3)
        o3 == Order(stock_name, "sell", 100, 2)
    IN  /\ seen = <<o1>> => (bids = <<<<100, 5, 10>>>> /\ asks = <<>>)
        /\ seen = <<o1, o2>> => (bids = <<<<100, 2, 9>>>> /\ asks = <<>>)
        /\ seen = <<o1, o2, o3>> => (bids = <<>> /\ asks = <<>>)

StrictlyDescending(s) == \A i \in 1..(Len(s) - 1) : s[i][1] > s[i + 1][1]
StrictlyAscending(s)  == \A i \in 1..(Len(s) - 1) : s[i][1] < s[i + 1][1]
Descending(s) == \A i \in 1..(Len(s) - 1) : s[i][1] >= s[i + 1][1]
Ascending(s)  == \A i \in 1..(Len(s) - 1) : s[i][1] <= s[i + 1][1]

\* C3 as stated: in every snapshot the bids are strictly descending and the
\* asks strictly ascending by price.
C3_StrictlySorted == StrictlyDescending(bids) /\ StrictlyAscending(asks)

\* C3, amended: in every snapshot the bids are descending and the asks
\* ascending by price, entries of equal price being allowed side by side.
C3_Sorted == Descending(bids) /\ Ascending(asks)

\* C3's case: a snapshot whose asks the resolver has rewritten and which
\* holds two asks of one price side by side.
C3_Witness ==
    /\ n > 0
    /\ asks # book.sell
    /\ \E i \in 1..(Len(asks) - 1) : asks[i][1] = asks[i + 1][1]

\* C5: the book carried to the next order is the uncrossed pair of the
\* snapshot, so what uncrossing consumed is no longer in the book.
C5_CarriedBookIsSnapshot ==
    n > 0 => (book.buy = bids /\ book.sell = asks)

\* ------------------------------------------------------ long runs, aging

\* The orders of SpecAging, by the number k of orders consumed before: a
\* bid below every earlier bid, or an ask above every earlier ask, so that
\* a price names one order of its side.  The first bids cross the asks.
AgingOrders(k) ==
    {Order(stock_name, "buy", 120 - k, 1), Order(stock_name, "sell", 110 + k, 2)}

NextAging == \E o \in AgingOrders(n) : n < MaxAgingOrders /\ Process(o)

SpecAging == Init /\ [][NextAging]_vars

IsInsertion(o, side) == o.stock = stock_name /\ o.side = side

\* The orders inserted on one side of the book, in order.
Insertions(side) == SelectSeq(seen, LAMBDA o : IsInsertion(o, side))

Entries(ledger) == {ledger[i] : i \in 1..Len(ledger)}

SnapshotSide(side) == IF side = "buy" THEN bids ELSE asks

\* C6: a resting order is absent from its side's ledger once the 11th later
\* insertion on that side has been processed: every entry of the kept
\* ledger is one of the last 11 insertions of its side, its age telling
\* which, and neither the kept ledger nor the snapshot holds an order that
\* 11 or more insertions of its side have followed.
C6_ExpiredByEleventh ==
    \A side \in {"buy", "sell"} :
        LET h == Insertions(side)
            m == Len(h)
        IN  /\ \A e \in Entries(book[side]) :
                   LET i == m - (_age - e[3])
                   IN  /\ i \in 1..m
                       /\ m - i < 11
                       /\ e[1] = h[i].order
                       /\ e[2] = h[i].size
            /\ \A i \in 1..m :
                   m - i >= 11 =>
                       \A e \in Entries(book[side]) \cup Entries(SnapshotSide(side)) :
                           e[1] # h[i].order

\* C6's case: only bids have been inserted, twelve of them, and the first
\* is gone from the ledger that still holds the eleven after it.
C6_Witness ==
    /\ Insertions("sell") = <<>>
    /\ Len(Insertions("buy")) = 12
    /\ Len(book.buy) = 11
    /\ \A e \in Entries(book.buy) : e[1] # seen[1].order

\* ------------------------------------------------- the functions, called

\* Prices, sizes and ages of the resting orders handed to the functions:
\* an age of 0 (dropped by the next aging), of 1, and a new order's.
FnPrices == {1, 2}
FnSizes == {0, 1, 2}
FnAges == {0, 1, _age}
FnEntries == FnPrices \X FnSizes \X FnAges

\* The ledgers of at most maxlen entries that order_book's sort can leave:
\* descending by price for bids (reverse), ascending for asks.
Ledgers(entries, maxlen, reverse) ==
    UNION {{s \in [1..k -> entries] :
               \A i \in 1..(k - 1) :
                   IF reverse THEN s[i][1] >= s[i + 1][1]
                              ELSE s[i][1] <= s[i + 1][1]} : k \in 0..maxlen}

AddBookArgs ==
    [book : Ledgers(FnEntries, MaxLen, FALSE), order : FnPrices, size : FnSizes]

ClearOrderArgs ==
    [order : FnPrices, size : FnSizes, book : Ledgers(FnEntries, MaxLen, FALSE)]

ClearBookArgs ==
    [buy : Ledgers(FnPrices \X FnSizes \X {_age}, MaxBids, TRUE),
     sell : Ledgers(FnEntries, MaxAsks, FALSE)]

InitFn ==
    /\ InitBook
    /\ ret = <<>>
    /\ frame = <<>>
    /\ app = <<>>
    /\ \/ call = "add_book" /\ args \in AddBookArgs
       \/ call = "clear_order" /\ args \in ClearOrderArgs
       \/ call = "clear_book" /\ args \in ClearBookArgs

CallAddBook ==
    /\ call = "add_book" /\ ret = <<>>
    /\ ret' = <<add_book(args.book, args.order, args.size, _age)>>
    /\ UNCHANGED <<book, snapshot, n, seen, call, args, frame, mem, app>>

CallClearOrder ==
    /\ call = "clear_order" /\ ret = <<>>
    /\ ret' = <<clear_order(args.order, args.size, args.book, 0)>>
    /\ UNCHANGED <<book, snapshot, n, seen, call, args, frame, mem, app>>

CallClearBook ==
    /\ call = "clear_book" /\ ret = <<>>
    /\ ret' = <<clear_book(args.buy, args.sell)>>
    /\ UNCHANGED <<book, snapshot, n, seen, call, args, frame, mem, app>>

\* clear_book called on what clear_book returned.
CallClearBookAgain ==
    /\ call = "clear_book" /\ Len(ret) = 1
    /\ ret' = Append(ret, clear_book(ret[1][1], ret[1][2]))
    /\ UNCHANGED <<book, snapshot, n, seen, call, args, frame, mem, app>>

NextFn == CallAddBook \/ CallClearOrder \/ CallClearBook \/ CallClearBookAgain

SpecFn == InitFn /\ [][NextFn]_vars

\* ------------------------------------------- clear_book, statement by statement

\* The ledger pairs the statements are run on: asks new or about to be
\* dropped by aging.
LoopArgs ==
    [buy : Ledgers(FnPrices \X FnSizes \X {_age}, MaxBids, TRUE),
     sell : Ledgers(FnPrices \X FnSizes \X {0, _age}, MaxAsks, FALSE)]

\* clear_book entered with its arguments: at the while test, clear_order
\* not yet called.
InitLoop ==
    /\ InitBook
    /\ call = "clear_book"
    /\ args \in LoopArgs
    /\ ret = <<>>
    /\ frame = [pc |-> "while", buy |-> args.buy, sell |-> args.sell,
                order |-> 0, size |-> 0, book |-> <<>>, notional |-> 0,
                new_book |-> None]
    /\ app = <<>>

LoopFrame(f) ==
    /\ frame' = f
    /\ UNCHANGED <<book, snapshot, n, seen, call, args, ret, mem, app>>

\* Lines 74-76: the test holds; the front bid is handed to clear_order
\* with the ask ledger.
WhileEnter ==
    /\ frame.pc = "while"
    /\ frame.buy # <<>> /\ frame.sell # <<>>
    /\ LoopFrame([frame EXCEPT !.pc = "clear_order",
                                !.order = frame.buy[1][1],
                                !.size = frame.buy[1][2],
                                !.book = frame.sell,
                                !.notional = 0])

\* Lines 74 and 82: a ledger is empty; return buy, sell.
WhileExit ==
    /\ frame.pc = "while"
    /\ ~(frame.buy # <<>> /\ frame.sell # <<>>)
    /\ frame' = [frame EXCEPT !.pc = "return"]
    /\ ret' = <<<<frame.buy, frame.sell>>>>
    /\ UNCHANGED <<book, snapshot, n, seen, call, args, mem, app>>

\* The locals of one activation of clear_order.
sdiff == frame.book[1][2] - frame.size
tail == Tail(frame.book)
crosses == ge(frame.order, frame.book[1][1])
notional_after ==
    frame.notional + min(frame.size, frame.book[1][2]) * frame.book[1][1]

\* Lines 63-68: the front ask is partly filled; the result is returned.
ResolvePartial ==
    /\ frame.pc = "clear_order"
    /\ crosses /\ sdiff > 0
    /\ LoopFrame([frame EXCEPT
            !.pc = "assign",
            !.new_book = <<notional_after,
                           add_book(tail, frame.book[1][1], sdiff, frame.book[1][3])>>])

\* Lines 63-70: the front ask is used up and asks are left; clear_order
\* calls itself on the tail with what is left of the size.
ResolveRecurse ==
    /\ frame.pc = "clear_order"
    /\ crosses /\ ~(sdiff > 0) /\ Len(tail) > 0
    /\ LoopFrame([frame EXCEPT !.size = -sdiff,
                                !.book = tail,
                                !.notional = notional_after])

\* Lines 63-70: no cross, or the asks are used up; None is returned.
ResolveNone ==
    /\ frame.pc = "clear_order"
    /\ ~crosses \/ (~(sdiff > 0) /\ ~(Len(tail) > 0))
    /\ LoopFrame([frame EXCEPT !.pc = "assign", !.new_book = None])

\* Mutant of AssignResult: the bid handed to clear_order is not dropped.
AssignResultKeepsBid ==
    /\ frame.pc = "assign"
    /\ frame.new_book # None
    /\ LoopFrame([frame EXCEPT !.pc = "while", !.sell = frame.new_book[2]])

\* Lines 77-79: a result; the asks are replaced and the front bid dropped.
AssignResult ==
    /\ frame.pc = "assign"
    /\ frame.new_book # None
    /\ LoopFrame([frame EXCEPT !.pc = "while",
                                !.sell = frame.new_book[2],
                                !.buy = Tail(frame.buy)])

\* Lines 80-82: no result; break and return buy, sell.
Break ==
    /\ frame.pc = "assign"
    /\ frame.new_book = None
    /\ frame' = [frame EXCEPT !.pc = "return"]
    /\ ret' = <<<<frame.buy, frame.sell>>>>
    /\ UNCHANGED <<book, snapshot, n, seen, call, args, mem, app>>

NextLoop ==
    \/ WhileEnter
    \/ WhileExit
    \/ ResolvePartial
    \/ ResolveRecurse
    \/ ResolveNone
    \/ AssignResult
    \/ Break

\* The call runs on: Python executes the next statement of a running call.
SpecLoop == InitLoop /\ [][NextLoop]_vars /\ WF_vars(NextLoop)

\* The statements return what the function clear_book returns.
LoopAgrees ==
    frame.pc = "return" => ret = <<clear_book(args.buy, args.sell)>>

\* One step of an iteration's end: the loop stops, or the front bid is
\* dropped and the asks grow by none.
IterationShrinksOrStops ==
    frame.pc = "assign" =>
        \/ frame'.pc = "return"
        \/ /\ Len(frame'.buy) = Len(frame.buy) - 1
           /\ Len(frame'.sell) <= Len(frame.sell)

\* One recursive call of clear_order: its ledger is strictly shorter.
RecursionShortens ==
    (frame.pc = "clear_order" /\ frame'.pc = "clear_order") =>
        Len(frame'.book) < Len(frame.book)

\* C10: clear_book terminates on every pair of finite ledgers; each loop
\* iteration either drops an entry of a ledger (the front bid, the asks
\* growing by none) or stops, and every recursive call of clear_order is
\* on a strictly shorter ledger.
C10_Terminates ==
    /\ <>(frame.pc = "return")
    /\ [][IterationShrinksOrStops /\ RecursionShortens]_vars

\* C10's case: the loop has returned after two iterations that each
\* dropped a bid, a recursive call of clear_order having used up an ask
\* (no ask was old enough to be dropped by aging).
C10_Witness ==
    /\ call = "clear_book"
    /\ frame # <<>>
    /\ frame.pc = "return"
    /\ Len(args.buy) = 2
    /\ frame.buy = <<>>
    /\ \A e \in Entries(args.sell) : e[3] = _age
    /\ Len(frame.sell) < Len(args.sell)

\* --------------------------------------------------- claims on the functions

RECURSIVE SumSizes(_)
SumSizes(ledger) ==
    IF ledger = <<>> THEN 0 ELSE Head(ledger)[2] + SumSizes(Tail(ledger))

\* The amount clear_order fills: the min(size, top_size) of every resting
\* order it matches, the terms its notional is summed from.
RECURSIVE Filled(_, _, _)
Filled(order, size, ledger) ==
    IF ledger = <<>> \/ ~ge(order, ledger[1][1]) THEN 0
    ELSE min(size, ledger[1][2])
         + (IF ledger[1][2] - size > 0 THEN 0
            ELSE Filled(order, size - ledger[1][2], Tail(ledger)))

\* clear_order was called and returned a result <<notional, new_book>>.
ClearOrderResult ==
    call = "clear_order" /\ ret # <<>> /\ Len(ret[1]) = 2

\* C4: for one clear_order call that returns a result, the resting size
\* removed from the ledger (sizes in minus sizes out) is the filled amount,
\* which is at most the incoming size.
C4_Conservation ==
    ClearOrderResult =>
        LET filled == Filled(args.order, args.size, args.book)
        IN  /\ SumSizes(args.book) - SumSizes(ret[1][2]) = filled
            /\ filled <= args.size

\* The prior entries add_book keeps by the claim's rule (reduced life > 0)
\* and by the source's (life > 0 before it is reduced), each one older.
Reduced(ledger) ==
    [i \in 1..Len(ledger) |-> <<ledger[i][1], ledger[i][2], ledger[i][3] - 1>>]
KeptIfReducedPositive(ledger) ==
    SelectSeq(Reduced(ledger), LAMBDA e : e[3] > 0)
KeptIfPositive(ledger) ==
    Reduced(SelectSeq(ledger, LAMBDA e : e[3] > 0))

AddBookReturned == call = "add_book" /\ ret # <<>>

\* C7 as stated: add_book returns the new order at life 10, then, in their
\* order, the prior entries one older whose reduced life is still > 0; so
\* no entry of life <= 0 is in the ledger returned.
C7_KeepsReducedPositive ==
    AddBookReturned =>
        /\ ret[1] = <<<<args.order, args.size, 10>>>> \o KeptIfReducedPositive(args.book)
        /\ \A e \in Entries(ret[1]) : e[3] > 0

\* C7, amended: add_book returns the new order at life 10, then, in their
\* order, the prior entries one older whose life before the reduction was
\* > 0; an entry of life 1 is returned with life 0, and no entry of life
\* < 0 is in the ledger returned.
C7_KeepsPositive ==
    AddBookReturned =>
        /\ ret[1] = <<<<args.order, args.size, 10>>>> \o KeptIfPositive(args.book)
        /\ \A e \in Entries(ret[1]) : e[3] >= 0

\* C7's case: add_book has run on a ledger holding an entry of life 0,
\* which it drops, and one of life 1, which it returns with life 0.
C7_Witness ==
    /\ AddBookReturned
    /\ \E e \in Entries(args.book) : e[3] = 0
    /\ \E e \in Entries(args.book) : e[3] = 1
    /\ \E e \in Entries(ret[1]) : e[3] = 0
    /\ Len(ret[1]) = Len(args.book)

\* C8: crossing resolution neither ages nor drops a resting order it does
\* not fill: when the front order is partially filled, every entry behind
\* it is returned with its price, size and life unchanged.
C8_TailUntouched ==
    (/\ ClearOrderResult
     /\ ge(args.order, args.book[1][1])
     /\ args.book[1][2] > args.size)
        => Tail(ret[1][2]) = Tail(args.book)

ClearBookAgainReturned == call = "clear_book" /\ Len(ret) = 2

\* C9: clear_book called on its own output returns that output unchanged.
C9_Idempotent ==
    ClearBookAgainReturned => ret[2] = ret[1]

\* C9's case: the first call consumed a bid and rewrote the asks, leaving
\* both ledgers non-empty, and the second call has returned.
C9_Witness ==
    /\ ClearBookAgainReturned
    /\ Len(ret[1][1]) = Len(args.buy) - 1
    /\ ret[1][1] # <<>>
    /\ ret[1][2] # args.sell
    /\ ret[1][1][1][1] >= ret[1][2][1][1]

ClearOrderReturned == call = "clear_order" /\ ret # <<>>

\* C11: clear_order never faults: for every ledger, the empty one too, and
\* every price and size >= 0 it returns a result <<notional, new_ledger>>
\* or None, and None for the empty ledger.
C11_NeverFaults ==
    ClearOrderReturned =>
        /\ ret[1] # IndexError
        /\ ret[1] = None \/ Len(ret[1]) = 2
        /\ args.book = <<>> => ret[1] = None

\* The least k whose first k resting sizes sum to more than size: the
\* entry a result leaves partially filled.
PartialIndex(size, ledger) ==
    CHOOSE k \in 1..Len(ledger) :
        /\ SumSizes(SubSeq(ledger, 1, k)) > size
        /\ \A j \in 1..(k - 1) : SumSizes(SubSeq(ledger, 1, j)) <= size

\* C17: when clear_order returns a result, the resting order it filled in
\* part is at the front of the returned ledger with its price, with the
\* life it had before the match, and with the size left: its size less
\* the incoming size (less what the orders before it took of that).
C17_RemainderKeepsLife ==
    ClearOrderResult =>
        LET k == PartialIndex(args.size, args.book)
            e == args.book[k]
        IN  ret[1][2][1] =
                <<e[1], SumSizes(SubSeq(args.book, 1, k)) - args.size, e[3]>>

\* C17's case: the front order, of life 1 and with an order behind it,
\* is filled in part by an incoming size > 0.
C17_Witness ==
    /\ ClearOrderResult
    /\ args.size > 0
    /\ Len(args.book) >= 2
    /\ args.book[1][2] > args.size
    /\ args.book[1][3] = 1

\* The asks at the front of the ledger that the price crosses.
RECURSIVE CrossingPrefix(_, _)
CrossingPrefix(order, ledger) ==
    IF ledger = <<>> \/ ~ge(order, ledger[1][1]) THEN <<>>
    ELSE <<ledger[1]>> \o CrossingPrefix(order, Tail(ledger))

\* The size covers every ask the price crosses.
Unresolvable(order, size, ledger) ==
    /\ ledger # <<>>
    /\ ge(order, ledger[1][1])
    /\ size >= SumSizes(CrossingPrefix(order, ledger))

ClearBookReturned == call = "clear_book" /\ ret # <<>>

\* C18: when the best bid crosses the front ask and its size is >= the
\* total size of the asks it crosses, clear_order returns None and
\* clear_book returns both ledgers as they were given.
C18_UnresolvedLeftAsGiven ==
    /\ (ClearOrderReturned /\ Unresolvable(args.order, args.size, args.book))
           => ret[1] = None
    /\ (/\ ClearBookReturned
        /\ args.buy # <<>>
        /\ Unresolvable(args.buy[1][1], args.buy[1][2], args.sell))
           => ret[1] = <<args.buy, args.sell>>

\* C18's case: clear_book has returned for a best bid that uses up the
\* front ask exactly and does not cross the ask behind it.
C18_Witness ==
    /\ ClearBookReturned
    /\ args.buy # <<>>
    /\ Len(args.sell) = 2
    /\ args.buy[1][2] > 0
    /\ args.buy[1][2] = args.sell[1][2]
    /\ ge(args.buy[1][1], args.sell[1][1])
    /\ ~ge(args.buy[1][1], args.sell[2][1])

\* C20: the bid ledger clear_book returns is a suffix of the one it was
\* given: front bids are dropped whole, no bid is rewritten.
C20_BidsAreSuffix ==
    ClearBookReturned =>
        LET kept == Len(ret[1][1])
            given == Len(args.buy)
        IN  /\ kept <= given
            /\ ret[1][1] = SubSeq(args.buy, given - kept + 1, given)

\* C20's case: a bid was dropped, a bid is left, and the front ask is
\* returned filled in part.
C20_Witness ==
    /\ ClearBookReturned
    /\ Len(ret[1][1]) = 1
    /\ Len(args.buy) = 2
    /\ ret[1][2][1][1] = args.sell[1][1]
    /\ ret[1][2][1][2] < args.sell[1][2]
    /\ ret[1][2][1][2] > 0

\* C19: in the book order_book keeps, each side holds at most 11 entries,
\* every life is in 0..10, and no two entries of a side have one life.
C19_StoredBookBounded ==
    \A side \in {"buy", "sell"} :
        /\ Len(book[side]) <= 11
        /\ \A i \in 1..Len(book[side]) : book[side][i][3] \in 0..10
        /\ \A i, j \in 1..Len(book[side]) :
               i # j => book[side][i][3] # book[side][j][3]

\* C19's case: a side that an insertion has just dropped an entry from:
\* twelve insertions, eleven entries, of every life from 0 to 10.
C19_Witness ==
    \E side \in {"buy", "sell"} :
        /\ Len(Insertions(side)) = 12
        /\ Len(book[side]) = 11
        /\ {e[3] : e \in Entries(book[side])} = 0..10

\* ---------------------------------------------------------------------
\* Claims on what order_book yields and on the objects it yields

\* The i-th tuple yielded, read through the objects it refers to.
SnapshotAt(m, i) ==
    <<m.emitted[i][1], m.heap[m.emitted[i][2]], m.heap[m.emitted[i][3]]>>

\* The variables book and snapshot are the values of the objects.
ObjectsAgree ==
    /\ book.buy = mem.heap[mem.buy]
    /\ book.sell = mem.heap[mem.sell]
    /\ Len(mem.emitted) > 0 => SnapshotAt(mem, Len(mem.emitted)) = snapshot

OwnOrders == {i \in 1..Len(seen) : seen[i].stock = stock_name}

\* C12 as stated: order_book yields one snapshot for each order of its own
\* instrument and none for an order of another instrument, so the snapshots
\* are as many as the orders of its instrument.
C12_OnePerOwnOrder ==
    Len(mem.emitted) = Cardinality(OwnOrders)

\* C12 amended: order_book yields one snapshot for each incoming order,
\* whatever its instrument; the i-th snapshot carries the timestamp of the
\* i-th order and the snapshots are as many as the orders.
C12_OnePerOrder ==
    /\ Len(mem.emitted) = Len(seen)
    /\ \A i \in 1..Len(mem.emitted) : mem.emitted[i][1] = i

C12_Witness ==
    /\ Len(seen) >= 2
    /\ seen[Len(seen)].stock # stock_name
    /\ OwnOrders # {}
    /\ Len(mem.emitted) = Len(seen)

\* C13: an order of another instrument leaves the bid and ask ledgers the
\* book keeps unchanged, values and list objects alike: nothing is
\* inserted, aged or filled.
C13_OtherInstrumentLeavesBook ==
    [][(n' = n + 1 /\ seen'[n'].stock # stock_name)
        => /\ book' = book
           /\ mem'.buy = mem.buy /\ mem'.sell = mem.sell
           /\ mem'.heap[mem'.buy] = mem.heap[mem.buy]
           /\ mem'.heap[mem'.sell] = mem.heap[mem.sell]]_vars

\* An order of another instrument has just been processed on a crossed
\* book of two bids, where an insertion would age and uncrossing fills.
C13_Witness ==
    /\ n >= 3
    /\ seen[n].stock # stock_name
    /\ Len(book.buy) = 2 /\ book.sell # <<>>
    /\ book.buy[1][1] >= book.sell[1][1]
    /\ asks # book.sell

\* C14: a snapshot, once yielded, never changes: after any later order the
\* timestamp, bids and asks of every earlier snapshot are what they were.
C14_SnapshotsImmutable ==
    [][\A i \in 1..Len(mem.emitted) : SnapshotAt(mem', i) = SnapshotAt(mem, i)]_vars

\* Two snapshots share a list, which only the book's own list can be, and
\* the book's side has since been bound to a ledger of other content.
C14_Witness ==
    \E i, j \in 1..Len(mem.emitted) :
        /\ i < j
        /\ mem.emitted[i][3] = mem.emitted[j][3]
        /\ mem.emitted[i][3] # mem.sell
        /\ mem.heap[mem.emitted[i][3]] # mem.heap[mem.sell]

\* ---------------------------------------------------------------------
\* The App: a query pulls the DOGE stream through the pacing generator

MaxAppOrders == 4
MaxElapsed == 5

REALTIME == TRUE

\* A row of read_csv is a dictionary of the columns generate_csv writes;
\* line 86 unpacks it into its keys, whatever the row holds: the timestamp
\* is 'Time' and the order is ('Stock', 'Side', 'Price', 'Size').
RowTime == "Time"
RowOrder == Order("Stock", "Side", "Price", "Size")

NoResponse == [bids |-> <<>>, asks |-> <<>>]

\* App.__init__: the books are empty, order_book is given the rows of
\* read_csv, len many, the clock starts, and the first tuple of the DOGE
\* stream is taken for its timestamp.  elapsed is now - _rt_start.
InitApp ==
    \E len \in 1..MaxAppOrders :
        LET b0 == [buy |-> <<>>, sell |-> <<>>]
            b1 == Inserted(b0, RowOrder)
            cleared == clear_book(b1.buy, b1.sell)
        IN  /\ book = b1
            /\ snapshot = <<RowTime, cleared[1], cleared[2]>>
            /\ n = 1
            /\ seen = <<RowOrder>>
            /\ mem = Emit(Rebound(InitMem, b1, RowOrder), RowTime, cleared)
            /\ call = "App"
            /\ args = <<>>
            /\ ret = <<>>
            /\ frame = <<>>
            /\ app = [len |-> len, sim_start |-> RowTime, elapsed |-> 0,
                      phase |-> "idle", resp |-> NoResponse]

\* datetime.now() moves on.
Tick ==
    /\ app.elapsed < MaxElapsed
    /\ app' = [app EXCEPT !.elapsed = @ + 1]
    /\ UNCHANGED <<book, snapshot, n, seen, call, args, ret, frame, mem>>

\* handle_query({'stock': 'DOGE'}): current_bids is called on a new pacing
\* generator over _data_doge.
QueryBegin ==
    /\ app.phase \in {"idle", "done", "TypeError"}
    /\ app' = [app EXCEPT !.phase = "bids", !.resp = NoResponse]
    /\ UNCHANGED <<book, snapshot, n, seen, call, args, ret, frame, mem>>

\* The tuple (t, bids, asks) is yielded to current_bids or to current_asks,
\* which keeps its side of it; current_asks is then called on a generator
\* of its own.
Delivered(a, bs, as) ==
    IF a.phase = "bids"
    THEN [a EXCEPT !.phase = "asks", !.resp.bids = bs]
    ELSE [a EXCEPT !.phase = "done", !.resp.asks = as]

\* next() on the pacing generator: one more tuple of _data_doge is taken.
\* In real time line 194 adds a timedelta to _sim_start, the string 'Time',
\* and raises TypeError, which neither current_bids nor handle_query
\* catches; otherwise the tuple is yielded.
Pull ==
    /\ app.phase \in {"bids", "asks"}
    /\ n < app.len
    /\ AdvanceAt(RowTime, RowOrder)
    /\ app' = IF REALTIME
              THEN [app EXCEPT !.phase = "TypeError"]
              ELSE Delivered(app, snapshot'[2], snapshot'[3])
    /\ UNCHANGED <<call, args, ret, frame>>

\* _data_doge has no more tuples: StopIteration, and the side is [].
Exhausted ==
    /\ app.phase \in {"bids", "asks"}
    /\ n = app.len
    /\ app' = [app EXCEPT !.phase = IF app.phase = "bids" THEN "asks" ELSE "done"]
    /\ UNCHANGED <<book, snapshot, n, seen, call, args, ret, frame, mem>>

NextApp ==
    \/ Tick
    \/ QueryBegin
    \/ Pull
    \/ Exhausted

SpecApp == InitApp /\ [][NextApp]_vars

\* ---------------------------------------------------------------------
\* Claims on the App

\* C15: a query returns, and the bids and the asks it returns are those of
\* one and the same snapshot, the one most recently produced.
C15_QueryReturnsLatestSnapshot ==
    /\ app.phase # "TypeError"
    /\ app.phase = "done"
        => app.resp.bids = snapshot[2] /\ app.resp.asks = snapshot[3]

====
